---- MODULE Spec2Model ----
(***************************************************************************)
(* Monarch: the control / badge descriptor engine of                       *)
(* MonarchApplicationMixin (getters, applyCardControls, applyCardBadges,   *)
(* controlReducer, getData) and the descriptor library of Components.js.   *)
(***************************************************************************)
EXTENDS Integers, Sequences, FiniteSets, TLC

\* ------------------------------------------------------------------ bounds
\* total number of in-place mutations hook listeners perform in one behaviour
MaxMutations == 2
\* number of getData calls in one behaviour
MaxRenders == 2
\* deepest nesting of a control a listener builds
MaxDepth == 3
\* longest sequence a listener builds by appending
MaxLen == 4

\* ------------------------------------------------- JavaScript values
\* An optional property: absent (undefined), a literal, or a function.
\* v holds the literal, f the name of the function.
Absent == [t |-> "absent", v |-> "<undefined>", f |-> ""]
Lit(s) == [t |-> "lit", v |-> s, f |-> ""]
Fn(name) == [t |-> "fn", v |-> "<undefined>", f |-> name]
\* the same for boolean-valued properties
AbsentB == [t |-> "absent", v |-> FALSE, f |-> ""]
LitB(b) == [t |-> "lit", v |-> b, f |-> ""]
FnB(name) == [t |-> "fn", v |-> FALSE, f |-> name]
\* the controls property: absent, or an array of controls
NoControls == [has |-> FALSE, items |-> <<>>]
Controls(s) == [has |-> TRUE, items |-> s]

\* An object literal with none of the properties the engine reads.
Descriptor ==
  [label |-> Absent, tooltip |-> Absent, text |-> Absent, aria |-> Absent,
   icon |-> Absent, class |-> Absent, disabled |-> AbsentB, hide |-> AbsentB,
   onclick |-> Absent, controls |-> NoControls]

\* JavaScript truthiness of a string-valued or function-valued property
Truthy(p) == \/ p.t = "fn"
             \/ p.t = "lit" /\ p.v # ""

\* ------------------------------------------------------------ subjects
\* The cards of the container the application shows.
Card(n, nf, pf, s, d) ==
  [name |-> n, hasNextFace |-> nf, hasPreviousFace |-> pf,
   data |-> [suit |-> s, value |-> "1", type |-> "base", drawn |-> d]]

TheCards ==
  <<Card("Ace", FALSE, TRUE, "spades", TRUE),
    Card("King", TRUE, FALSE, "hearts", FALSE),
    Card("Queen", TRUE, TRUE, "clubs", TRUE),
    Card("Jack", FALSE, FALSE, "diamonds", FALSE)>>

\* The functions descriptors carry as computed properties, applied to a card.
Call(f, card) ==
  CASE f = "card.data.suit" -> card.data.suit
    [] f = "card.data.value" -> card.data.value
    [] f = "card.data.type" -> card.data.type
    [] f = "card.name" -> card.name
    [] f = "playCardAria" -> "monarch.aria.playCard:" \o card.name
    [] f = "!card.hasNextFace" -> ~card.hasNextFace
    [] f = "!card.hasPreviousFace" -> ~card.hasPreviousFace
    [] f = "!card.data.drawn" -> ~card.data.drawn

\* ------------------------------------------------ attribute resolver
\* utils.functionOrString(value, defaultValue): a function of the card.
\* A function is returned as it is, a plain value becomes a constant
\* function, an absent value the constant function of the default.
functionOrString(value, defaultValue) ==
  IF value.t = "fn" THEN [t |-> "fn", v |-> defaultValue, f |-> value.f]
  ELSE IF value.t = "lit" THEN [t |-> "const", v |-> value.v, f |-> ""]
  ELSE [t |-> "const", v |-> defaultValue, f |-> ""]

\* calling what functionOrString returned: (...)(card)
Invoke(fn, card) == IF fn.t = "fn" THEN Call(fn.f, card) ELSE fn.v

\* control.class ?? ""
ClassOrEmpty(d) == IF d.class.t = "absent" THEN "" ELSE d.class.v

\* ------------------------------------------------ descriptor library
\* Components.js, class Controls
faceNext ==
  [Descriptor EXCEPT !.tooltip = Lit("CARD.FaceNext"),
                     !.icon = Lit("fas fa-caret-up"),
                     !.class = Lit("next-face"),
                     !.disabled = FnB("!card.hasNextFace"),
                     !.onclick = Fn("faceNext.onclick")]

facePrevious ==
  [Descriptor EXCEPT !.tooltip = Lit("CARD.FacePrevious"),
                     !.icon = Lit("fas fa-caret-down"),
                     !.class = Lit("prev-face"),
                     !.disabled = FnB("!card.hasPreviousFace"),
                     !.onclick = Fn("facePrevious.onclick")]

faces ==
  [Descriptor EXCEPT !.class = Lit("card-faces"),
                     !.controls = Controls(<<faceNext, facePrevious>>)]

ControlsDefault == <<faces>>

play ==
  [Descriptor EXCEPT !.tooltip = Lit("CARD.Play"),
                     !.aria = Fn("playCardAria"),
                     !.icon = Lit("fas fa-chevron-circle-right"),
                     !.class = Lit("play-card"),
                     !.onclick = Fn("play.onclick")]

\* Components.js, class Badges
suit ==
  [Descriptor EXCEPT !.tooltip = Lit("CARD.Suit"),
                     !.text = Fn("card.data.suit"),
                     !.class = Lit("card-suit")]

value ==
  [Descriptor EXCEPT !.tooltip = Lit("CARD.Value"),
                     !.text = Fn("card.data.value"),
                     !.class = Lit("card-value")]

type ==
  [Descriptor EXCEPT !.tooltip = Lit("CARD.Type"),
                     !.text = Fn("card.data.type"),
                     !.class = Lit("card-type")]

drawn ==
  [Descriptor EXCEPT !.tooltip = Lit("CARD.Drawn"),
                     !.text = Lit("CARD.Drawn"),
                     !.hide = FnB("!card.data.drawn"),
                     !.class = Lit("card-drawn")]

BadgesDefault == <<suit, value, type>>

\* --------------------------------------- MonarchApplicationMixin getters
\* static appName of the surfaces
AppNames == {"Application", "Hand"}

\* MonarchApplicationMixin, get controls(): a fresh array of fresh object
\* literals on every call
controls ==
  <<[Descriptor EXCEPT
       !.class = Lit("card-faces"),
       !.controls = Controls(<<
         [Descriptor EXCEPT !.tooltip = Lit("CARD.FaceNext"),
                            !.icon = Lit("fas fa-caret-up"),
                            !.class = Lit("next-face"),
                            !.disabled = FnB("!card.hasNextFace"),
                            !.onclick = Fn("faceNext.onclick")],
         [Descriptor EXCEPT !.tooltip = Lit("CARD.FacePrevious"),
                            !.icon = Lit("fas fa-caret-down"),
                            !.class = Lit("prev-face"),
                            !.disabled = FnB("!card.hasPreviousFace"),
                            !.onclick = Fn("facePrevious.onclick")]>>)]>>

\* MonarchCardsConfig, the superclass of MonarchHand: an application of the
\* mixin that keeps the mixin's controls getter
MonarchCardsConfigControls == controls

\* MonarchHand, get controls() without the spread of super.controls
MonarchHandControlsOnly ==
  <<[Descriptor EXCEPT
       !.class = Lit("basic-controls"),
       !.controls = Controls(<<
         [Descriptor EXCEPT !.tooltip = Lit("CARD.Play"),
                            !.aria = Fn("playCardAria"),
                            !.icon = Lit("fas fa-chevron-circle-right"),
                            !.class = Lit("play-card"),
                            !.onclick = Fn("playCard.onclick")]>>)]>>

\* MonarchHand, get controls(): super.controls, then the basic-controls group
MonarchHandControls ==
  MonarchCardsConfigControls \o
  <<[Descriptor EXCEPT
       !.class = Lit("basic-controls"),
       !.controls = Controls(<<
         [Descriptor EXCEPT !.tooltip = Lit("CARD.Play"),
                            !.aria = Fn("playCardAria"),
                            !.icon = Lit("fas fa-chevron-circle-right"),
                            !.class = Lit("play-card"),
                            !.onclick = Fn("playCard.onclick")]>>)]>>

\* this.controls, by the class of the application
ThisControls(app) == IF app = "Hand" THEN MonarchHandControls ELSE controls

\* get badges()
badges ==
  <<[Descriptor EXCEPT !.tooltip = Lit("CARD.Suit"),
                       !.text = Fn("card.data.suit"),
                       !.class = Lit("card-suit")],
    [Descriptor EXCEPT !.tooltip = Lit("CARD.Value"),
                       !.text = Fn("card.data.value"),
                       !.class = Lit("card-value")],
    [Descriptor EXCEPT !.tooltip = Lit("CARD.Type"),
                       !.text = Fn("card.data.type"),
                       !.class = Lit("card-type")]>>

\* get appControls()
appControls == <<>>

\* ------------------------------------------------- descriptor applier
RECURSIVE applyCardControls(_, _)
\* applyCardControl with the aria line copied from the tooltip line
applyCardControlAria(card, control) ==
  [tooltip |-> Invoke(functionOrString(control.tooltip, ""), card),
   aria |-> Invoke(functionOrString(control.tooltip, ""), card),
   icon |-> Invoke(functionOrString(control.icon, ""), card),
   class |-> ClassOrEmpty(control),
   disabled |-> Invoke(functionOrString(control.disabled, FALSE), card),
   controls |-> IF control.controls.has
                THEN applyCardControls(card, control.controls.items)
                ELSE <<>>]

\* applyCardControl that does not apply the children of a group
applyCardControlFlat(card, control) ==
  [tooltip |-> Invoke(functionOrString(control.tooltip, ""), card),
   aria |-> Invoke(functionOrString(control.aria, ""), card),
   icon |-> Invoke(functionOrString(control.icon, ""), card),
   class |-> ClassOrEmpty(control),
   disabled |-> Invoke(functionOrString(control.disabled, FALSE), card),
   controls |-> <<>>]

\* applyCardControl(card, control): the resolved record of one control
applyCardControl(card, control) ==
  [tooltip |-> Invoke(functionOrString(control.tooltip, ""), card),
   aria |-> Invoke(functionOrString(control.aria, ""), card),
   icon |-> Invoke(functionOrString(control.icon, ""), card),
   class |-> ClassOrEmpty(control),
   disabled |-> Invoke(functionOrString(control.disabled, FALSE), card),
   controls |-> IF control.controls.has
                THEN applyCardControls(card, control.controls.items)
                ELSE <<>>]

\* applyCardControls(card, controls): controls.map(applyCardControl)
applyCardControls(card, cs) ==
  [i \in 1..Len(cs) |-> applyCardControl(card, cs[i])]

\* applyCardBadges with the text line copied from the tooltip line
applyCardBadgesText(card, bs) ==
  [i \in 1..Len(bs) |->
     [tooltip |-> Invoke(functionOrString(bs[i].tooltip, ""), card),
      text |-> Invoke(functionOrString(bs[i].tooltip, ""), card),
      hide |-> Invoke(functionOrString(bs[i].hide, FALSE), card),
      class |-> ClassOrEmpty(bs[i])]]

\* applyCardBadges(card, badges)
applyCardBadges(card, bs) ==
  [i \in 1..Len(bs) |->
     [tooltip |-> Invoke(functionOrString(bs[i].tooltip, ""), card),
      text |-> Invoke(functionOrString(bs[i].text, ""), card),
      hide |-> Invoke(functionOrString(bs[i].hide, FALSE), card),
      class |-> ClassOrEmpty(bs[i])]]

\* ------------------------------------------------- control flattener
RECURSIVE controlReducer(_, _)
RECURSIVE Reduce(_, _)
\* controlReducer with || for &&: a class alone is enough for an entry
controlReducerEither(acc, control) ==
  LET pushed == IF Truthy(control.onclick) \/ Truthy(control.class)
                THEN Append(acc, <<control.class.v, control.onclick.f>>)
                ELSE acc
  IN IF control.controls.has
     THEN Reduce(control.controls.items, pushed)
     ELSE pushed

\* controlReducer that reduces the children into a new accumulator and
\* drops the result
controlReducerShallow(acc, control) ==
  IF Truthy(control.onclick) /\ Truthy(control.class)
  THEN Append(acc, <<control.class.v, control.onclick.f>>)
  ELSE acc

\* controlReducer(controls, control): push the [class, onclick] entry of a
\* control that has both, then fold the control's children into the same
\* accumulator.
controlReducer(acc, control) ==
  LET pushed == IF Truthy(control.onclick) /\ Truthy(control.class)
                THEN Append(acc, <<control.class.v, control.onclick.f>>)
                ELSE acc
  IN IF control.controls.has
     THEN Reduce(control.controls.items, pushed)
     ELSE pushed

\* Array.prototype.reduce(controlReducer, acc): a left fold
Reduce(cs, acc) ==
  IF cs = <<>> THEN acc
  ELSE Reduce(Tail(cs), controlReducer(acc, Head(cs)))

RECURSIVE ObjectFromEntriesFirst(_)
\* Object.fromEntries keeping the first entry of a key
ObjectFromEntriesFirst(entries) ==
  IF entries = <<>> THEN [k \in {} |-> ""]
  ELSE LET rest == ObjectFromEntriesFirst(Tail(entries))
           first == Head(entries)
       IN [k \in DOMAIN rest \cup {first[1]} |->
             IF k = first[1] THEN first[2] ELSE rest[k]]

RECURSIVE ObjectFromEntries(_)
\* Object.fromEntries(entries): a later entry overwrites an earlier one
ObjectFromEntries(entries) ==
  IF entries = <<>> THEN [k \in {} |-> ""]
  ELSE LET n == Len(entries)
           rest == ObjectFromEntries(SubSeq(entries, 1, n - 1))
           last == entries[n]
       IN [k \in DOMAIN rest \cup {last[1]} |->
             IF k = last[1] THEN last[2] ELSE rest[k]]

\* the dispatch table getData derives from a control sequence
Flatten(cs) == ObjectFromEntries(Reduce(cs, <<>>))

\* --------------------------------------------------- control trees
\* A path <<i, j, ...>> names the control reached through item i of the
\* sequence, item j of its children, and so on.
Front(p) == SubSeq(p, 1, Len(p) - 1)

RECURSIVE PathsOf(_)
PathsOf(cs) ==
  UNION {{<<i>>} \cup {<<i>> \o q : q \in PathsOf(cs[i].controls.items)} :
         i \in 1..Len(cs)}

RECURSIVE ItemsAt(_, _)
\* the sequence a path of groups leads to; <<>> is the sequence itself
ItemsAt(cs, p) ==
  IF p = <<>> THEN cs ELSE ItemsAt(cs[Head(p)].controls.items, Tail(p))

NodeAt(cs, p) == ItemsAt(cs, Front(p))[p[Len(p)]]

RECURSIVE WithItemsAt(_, _, _)
\* the tree after the sequence at path p was changed in place to items
WithItemsAt(cs, p, items) ==
  IF p = <<>> THEN items
  ELSE [cs EXCEPT ![Head(p)].controls.items =
          WithItemsAt(cs[Head(p)].controls.items, Tail(p), items)]

\* the paths of the arrays of a tree: the tree and every group in it
ArrayPaths(cs) == {<<>>} \cup {p \in PathsOf(cs) : NodeAt(cs, p).controls.has}

RECURSIVE DepthOf(_)
DepthOf(cs) ==
  IF cs = <<>> THEN 0
  ELSE LET ds == {1 + DepthOf(cs[i].controls.items) : i \in 1..Len(cs)}
       IN CHOOSE d \in ds : \A e \in ds : e <= d

Reverse(s) == [i \in 1..Len(s) |-> s[Len(s) + 1 - i]]
RemoveIndex(s, i) == SubSeq(s, 1, i - 1) \o SubSeq(s, i + 1, Len(s))

\* ----------------------------------------- what hook listeners contribute
Leaf(cls, h) ==
  [Descriptor EXCEPT !.tooltip = Fn("card.name"), !.icon = Lit("fas fa-star"),
                     !.class = cls, !.disabled = LitB(TRUE), !.onclick = h]

ExtraControls ==
  {Leaf(Lit("a"), Fn("h1")), Leaf(Lit("next-face"), Fn("h1")),
   [Descriptor EXCEPT !.class = Lit("g2"), !.onclick = Fn("hg"),
                      !.controls = Controls(<<Leaf(Lit("b"), Fn("h2")),
                                              Leaf(Absent, Fn("h3")),
                                              Leaf(Lit(""), Fn("h1"))>>)]}

ExtraBadges ==
  {drawn,
   [Descriptor EXCEPT !.tooltip = Lit("T"), !.text = Fn("card.name"),
                      !.class = Lit("x")],
   [Descriptor EXCEPT !.text = Lit("plain"), !.hide = LitB(TRUE)]}

ExtraAppControls ==
  {[Descriptor EXCEPT !.label = Lit("monarch.label.draw"),
                      !.class = Lit("draw-cards"), !.onclick = Fn("h1")]}

\* What the listeners append to their k-th argument: controls to the
\* second, badges to the third, application controls to the fourth.
Extras(k) ==
  CASE k = 2 -> ExtraControls
    [] k = 3 -> ExtraBadges
    [] k = 4 -> ExtraAppControls

\* --------------------------------------------------------------- state
VARIABLES
  appName,     \* this.constructor.appName
  cards,       \* the cards of the container, the subjects of the appliers
  pc,          \* position of getData: "idle", "hook" (listeners run), "ready"
  data,        \* the data object of the current getData
  published,   \* the Hooks.callAll calls of the current getData
  controlFns,  \* this._controlFns, the dispatch table
  renders,     \* completed getData calls
  mutations,   \* in-place mutations listeners have made
  resolved     \* what the last applier call of this render returned

vars == <<appName, cards, pc, data, published, controlFns, renders,
          mutations, resolved>>

NoResult == [kind |-> "none", card |-> 0, out |-> <<>>]

\* this._controlFns is undefined until the first getData: no class is bound
Init ==
  /\ appName \in AppNames
  /\ cards = TheCards
  /\ pc = "idle"
  /\ data = [controls |-> <<>>, badges |-> <<>>, appControls |-> <<>>]
  /\ published = <<>>
  /\ controlFns = [k \in {} |-> ""]
  /\ renders = 0
  /\ mutations = 0
  /\ resolved = NoResult

\* ------------------------------------------------------------- getData
\* the arguments of Hooks.callAll after the hook's name; an array is passed
\* by reference, named here by the field of data that holds it
HookArgs == <<"this", "controls", "badges", "appControls">>

\* getData that keeps the arrays of the first render (this._controls,
\* this._badges, this._appControls) instead of calling the getters again
GetDataPublishCached ==
  /\ pc \in {"idle", "ready"}
  /\ renders < MaxRenders
  /\ data' = IF renders = 0
             THEN [controls |-> ThisControls(appName), badges |-> badges,
                   appControls |-> appControls]
             ELSE data
  /\ published' = <<[name |-> "getMonarch" \o appName \o "Controls",
                     args |-> HookArgs]>>
  /\ pc' = "hook"
  /\ UNCHANGED <<appName, cards, controlFns, renders, mutations, resolved>>

\* getData up to Hooks.callAll: the three getters, then the hook.  The only
\* await of getData is super.getData, before the first assignment; from
\* there to the return getData runs without interruption, the listeners
\* inside the Hooks.callAll call.
GetDataPublish ==
  /\ pc \in {"idle", "ready"}
  /\ renders < MaxRenders
  /\ data' = [controls |-> ThisControls(appName), badges |-> badges,
              appControls |-> appControls]
  /\ published' = <<[name |-> "getMonarch" \o appName \o "Controls",
                     args |-> HookArgs]>>
  /\ pc' = "hook"
  /\ UNCHANGED <<appName, cards, controlFns, renders, mutations, resolved>>

\* the array a listener received as its k-th argument
Arg(k) == published[Len(published)].args[k]

\* a listener appends a descriptor to one of the arrays it received, or to
\* the children of a group in it
ListenerAppend ==
  /\ pc = "hook"
  /\ mutations < MaxMutations
  /\ \E k \in 2..4 : \E d \in Extras(k) :
       \E p \in ArrayPaths(data[Arg(k)]) :
         /\ Len(p) + DepthOf(<<d>>) <= MaxDepth
         /\ Len(ItemsAt(data[Arg(k)], p)) < MaxLen
         /\ data' = [data EXCEPT ![Arg(k)] =
                       WithItemsAt(@, p, Append(ItemsAt(@, p), d))]
  /\ mutations' = mutations + 1
  /\ UNCHANGED <<appName, cards, pc, published, controlFns, renders, resolved>>

\* a listener removes an entry in place (splice)
ListenerRemove ==
  /\ pc = "hook"
  /\ mutations < MaxMutations
  /\ \E k \in {2} : \E p \in PathsOf(data[Arg(k)]) :
       data' = [data EXCEPT ![Arg(k)] =
                  WithItemsAt(@, Front(p),
                              RemoveIndex(ItemsAt(@, Front(p)), p[Len(p)]))]
  /\ mutations' = mutations + 1
  /\ UNCHANGED <<appName, cards, pc, published, controlFns, renders, resolved>>

\* a listener reorders an array in place (reverse)
ListenerReorder ==
  /\ pc = "hook"
  /\ mutations < MaxMutations
  /\ \E k \in {2} : \E p \in ArrayPaths(data[Arg(k)]) :
       /\ Len(ItemsAt(data[Arg(k)], p)) >= 2
       /\ data' = [data EXCEPT ![Arg(k)] =
                     WithItemsAt(@, p, Reverse(ItemsAt(@, p)))]
  /\ mutations' = mutations + 1
  /\ UNCHANGED <<appName, cards, pc, published, controlFns, renders, resolved>>

\* a listener changes the class of a control without children in place
ListenerSetField ==
  /\ pc = "hook"
  /\ mutations < MaxMutations
  /\ \E k \in {2} : \E p \in PathsOf(data[Arg(k)]) :
       \E c \in {Lit("g2")} :
         LET items == ItemsAt(data[Arg(k)], Front(p))
             i == p[Len(p)]
         IN /\ ~items[i].controls.has
            /\ items[i].class # c
            /\ data' = [data EXCEPT ![Arg(k)] =
                          WithItemsAt(@, Front(p),
                                      [items EXCEPT ![i].class = c])]
  /\ mutations' = mutations + 1
  /\ UNCHANGED <<appName, cards, pc, published, controlFns, renders, resolved>>

\* getData that flattens this.controls, a fresh array, not data.controls
GetDataFlattenFresh ==
  /\ pc = "hook"
  /\ controlFns' = Flatten(ThisControls(appName))
  /\ pc' = "ready"
  /\ renders' = renders + 1
  /\ UNCHANGED <<appName, cards, data, published, mutations, resolved>>

\* getData after Hooks.callAll returned: flatten data.controls
GetDataFlatten ==
  /\ pc = "hook"
  /\ controlFns' = Flatten(data.controls)
  /\ pc' = "ready"
  /\ renders' = renders + 1
  /\ UNCHANGED <<appName, cards, data, published, mutations, resolved>>

\* ------------------------------------------------------------ appliers

\* applyCardControls that resolves the tooltips of the render's controls in
\* place before it maps them
ApplyCardControlsInPlace ==
  /\ pc = "ready"
  /\ \E i \in DOMAIN cards :
       /\ resolved' = [kind |-> "controls", card |-> i,
                       out |-> applyCardControls(cards[i], data.controls)]
       /\ data' = [data EXCEPT !.controls =
                     [j \in 1..Len(@) |->
                        [@[j] EXCEPT !.tooltip =
                           Lit(Invoke(functionOrString(@, ""), cards[i]))]]]
  /\ UNCHANGED <<appName, cards, pc, published, controlFns, renders,
                 mutations>>

\* The presentation applies the lists of data to a card once getData has
\* returned them.
ApplyCardControls ==
  /\ pc = "ready"
  /\ \E i \in DOMAIN cards :
       resolved' = [kind |-> "controls", card |-> i,
                    out |-> applyCardControls(cards[i], data.controls)]
  /\ UNCHANGED <<appName, cards, pc, data, published, controlFns, renders,
                 mutations>>

ApplyCardBadges ==
  /\ pc = "ready"
  /\ \E i \in DOMAIN cards :
       resolved' = [kind |-> "badges", card |-> i,
                    out |-> applyCardBadges(cards[i], data.badges)]
  /\ UNCHANGED <<appName, cards, pc, data, published, controlFns, renders,
                 mutations>>

\* the render cycle: getData calls, with the listeners of the hook
Next ==
  \/ GetDataPublish
  \/ ListenerAppend
  \/ ListenerRemove
  \/ ListenerReorder
  \/ ListenerSetField
  \/ GetDataFlatten

Spec == Init /\ [][Next]_vars

\* the first getData of an application
FirstGetData == renders = 0 /\ GetDataPublish

\* one render: the first getData, then the appliers on the cards with the
\* lists that getData left
NextApply ==
  \/ FirstGetData
  \/ ListenerAppend
  \/ ListenerRemove
  \/ ListenerReorder
  \/ ListenerSetField
  \/ GetDataFlatten
  \/ ApplyCardControls
  \/ ApplyCardBadges

SpecApply == Init /\ [][NextApply]_vars

\* ========================================================== properties
\* a control that has both an onclick and a non-empty class
HasOnclick(c) == c.onclick.t # "absent"
HasClass(c) == c.class.t = "lit" /\ c.class.v # ""
IsGroup(c) == c.controls.has
Keyed(cs) == {p \in PathsOf(cs) : HasOnclick(NodeAt(cs, p)) /\ HasClass(NodeAt(cs, p))}
ClassAt(cs, p) == NodeAt(cs, p).class.v
OnclickAt(cs, p) == NodeAt(cs, p).onclick.f

\* no two controls of the tree carry the same class name
DistinctClasses(cs) ==
  \A p, q \in PathsOf(cs) :
    (p # q /\ HasClass(NodeAt(cs, p)) /\ HasClass(NodeAt(cs, q)))
      => ClassAt(cs, p) # ClassAt(cs, q)

\* p comes before q in the traversal: a control before its own children,
\* siblings left to right
Before(p, q) ==
  \/ Len(p) < Len(q) /\ SubSeq(q, 1, Len(p)) = p
  \/ \E i \in 1..Len(p) :
       /\ i <= Len(q)
       /\ SubSeq(p, 1, i - 1) = SubSeq(q, 1, i - 1)
       /\ p[i] < q[i]

\* the keyed control of class c the traversal meets last
LastKeyed(cs, c) ==
  CHOOSE p \in Keyed(cs) :
    /\ ClassAt(cs, p) = c
    /\ \A q \in Keyed(cs) : (ClassAt(cs, q) = c /\ q # p) => Before(q, p)

\* C1: when all class names of the control tree are distinct, the dispatch
\* table has the key c exactly when some control has an onclick and the
\* non-empty class c, the key maps to that control's onclick, and the table
\* has as many entries as there are such controls; a control with an
\* onclick and no class, or an empty one, gives no key.
C1_FlattenDistinct ==
  (pc = "ready" /\ DistinctClasses(data.controls)) =>
    LET cs == data.controls IN
    /\ DOMAIN controlFns = {ClassAt(cs, p) : p \in Keyed(cs)}
    /\ \A p \in Keyed(cs) : controlFns[ClassAt(cs, p)] = OnclickAt(cs, p)
    /\ Cardinality(DOMAIN controlFns) = Cardinality(Keyed(cs))
    /\ "" \notin DOMAIN controlFns
    /\ "<undefined>" \notin DOMAIN controlFns

\* a flattened tree of distinct classes with handlers at depths 1, 2 and 3
\* and a control with an onclick and no class
C1_Witness ==
  /\ pc = "ready"
  /\ DistinctClasses(data.controls)
  /\ \A d \in 1..3 : \E p \in Keyed(data.controls) :
       Len(p) = d /\ ClassAt(data.controls, p) \in DOMAIN controlFns
  /\ \E p \in PathsOf(data.controls) :
       HasOnclick(NodeAt(data.controls, p)) /\ ~HasClass(NodeAt(data.controls, p))

\* C2: when several controls with an onclick carry the same non-empty class,
\* the table has one entry for the class, and its handler is the onclick of
\* the one the traversal meets last.
C2_LastWins ==
  pc = "ready" =>
    LET cs == data.controls IN
    \A p, q \in Keyed(cs) :
      (p # q /\ ClassAt(cs, p) = ClassAt(cs, q)) =>
        /\ ClassAt(cs, p) \in DOMAIN controlFns
        /\ controlFns[ClassAt(cs, p)] = OnclickAt(cs, LastKeyed(cs, ClassAt(cs, p)))
        /\ Cardinality(DOMAIN controlFns) < Cardinality(Keyed(cs))

\* a group and its own child share a class and differ in handler, and the
\* child's handler is the one in the table
C2_Witness ==
  /\ pc = "ready"
  /\ \E p, q \in Keyed(data.controls) :
       /\ Len(q) = Len(p) + 1 /\ SubSeq(q, 1, Len(p)) = p
       /\ ClassAt(data.controls, p) = ClassAt(data.controls, q)
       /\ OnclickAt(data.controls, p) # OnclickAt(data.controls, q)
       /\ controlFns[ClassAt(data.controls, q)] = OnclickAt(data.controls, q)

\* C3 as stated: no control that has a controls sub-sequence contributes an
\* entry, so every entry of the table is the class and onclick of a control
\* without children.
C3_GroupsNeverKeyed ==
  pc = "ready" =>
    \A c \in DOMAIN controlFns :
      \E p \in Keyed(data.controls) :
        /\ ~IsGroup(NodeAt(data.controls, p))
        /\ ClassAt(data.controls, p) = c
        /\ OnclickAt(data.controls, p) = controlFns[c]

\* C3 amended: a group without an onclick contributes no entry (its class
\* is a key only when a control with an onclick carries it), and a group
\* with an onclick and a non-empty class is keyed like any other control.
C3_GroupsKeyedByOnclick ==
  pc = "ready" =>
    LET cs == data.controls IN
    \A p \in PathsOf(cs) :
      IsGroup(NodeAt(cs, p)) =>
        /\ (HasClass(NodeAt(cs, p)) /\ ~HasOnclick(NodeAt(cs, p))
            /\ \A q \in Keyed(cs) : ClassAt(cs, q) # ClassAt(cs, p))
             => ClassAt(cs, p) \notin DOMAIN controlFns
        /\ (p \in Keyed(cs) /\ LastKeyed(cs, ClassAt(cs, p)) = p)
             => (/\ ClassAt(cs, p) \in DOMAIN controlFns
                 /\ controlFns[ClassAt(cs, p)] = OnclickAt(cs, p))

\* a flattened tree with a group that has no onclick and is no key, and a
\* group that has an onclick and is a key
C3_Witness ==
  /\ pc = "ready"
  /\ \E p, q \in PathsOf(data.controls) :
       /\ IsGroup(NodeAt(data.controls, p)) /\ IsGroup(NodeAt(data.controls, q))
       /\ ~HasOnclick(NodeAt(data.controls, p))
       /\ ClassAt(data.controls, p) \notin DOMAIN controlFns
       /\ q \in Keyed(data.controls)
       /\ ClassAt(data.controls, q) \in DOMAIN controlFns
       /\ controlFns[ClassAt(data.controls, q)] = OnclickAt(data.controls, q)

\* C4 as stated: the listeners of every published hook receive
\* (application, badges, controls, appControls): the second argument is the
\* badge sequence, the third the control sequence getData flattens.
C4_HookArgsAsDocumented ==
  \A i \in 1..Len(published) :
    published[i].args = <<"this", "badges", "controls", "appControls">>

\* the dispatch table a control sequence stands for: a key for the class of
\* every keyed control, bound to the onclick of the last one of that class
TableOf(cs) ==
  [c \in {ClassAt(cs, p) : p \in Keyed(cs)} |-> OnclickAt(cs, LastKeyed(cs, c))]

\* the order of one step of getData
PublishThenFlatten ==
  /\ (pc # "hook" /\ pc' = "hook") =>
       /\ Len(published') = 1
       /\ published'[1].name = "getMonarch" \o appName \o "Controls"
       /\ published'[1].args[1] = "this"
       /\ {published'[1].args[k] : k \in 2..4} = DOMAIN data'
       /\ controlFns' = controlFns
  /\ pc = "hook" => (published' = published /\ pc' \in {"hook", "ready"})
  /\ controlFns' # controlFns => (pc = "hook" /\ pc' = "ready")
  /\ (pc = "hook" /\ pc' = "ready") =>
       /\ data' = data
       /\ controlFns' = TableOf(data.controls)

\* C5: in every getData the hook getMonarch<appName>Controls is published
\* once, after the three sequences were obtained and with exactly those
\* arrays; nothing is published again while the listeners run; the table
\* changes only in the step that follows the listeners, and is then the
\* flattening of the control sequence as the listeners left it.
C5_PublishThenFlatten == [][PublishThenFlatten]_vars

\* a table with the key of a control a listener appended and without the key
\* of a default control a listener removed
C5_Witness ==
  /\ pc = "ready"
  /\ Len(published) = 1
  /\ "a" \in DOMAIN controlFns
  /\ controlFns["a"] = "h1"
  /\ "next-face" \notin DOMAIN controlFns
  /\ \A p \in PathsOf(data.controls) : ClassAt(data.controls, p) # "next-face"

\* the defaults of a surface, from the descriptor library
Pristine(app) ==
  [controls |->
     IF app = "Hand"
     THEN ControlsDefault \o
          <<[Descriptor EXCEPT
               !.class = Lit("basic-controls"),
               !.controls = Controls(<<[play EXCEPT !.onclick =
                                          Fn("playCard.onclick")]>>)]>>
     ELSE ControlsDefault,
   badges |-> BadgesDefault,
   appControls |-> <<>>]

\* a step of getData owes nothing to earlier renders
FreshRender ==
  /\ (pc # "hook" /\ pc' = "hook") => data' = Pristine(appName)
  /\ (pc = "hook" /\ pc' = "ready") =>
       \A c \in DOMAIN controlFns' :
         \E p \in Keyed(data.controls) :
           /\ ClassAt(data.controls, p) = c
           /\ OnclickAt(data.controls, p) = controlFns'[c]

\* C6: whatever listeners did to the sequences of earlier renders, every
\* getData publishes the pristine defaults, and the table it leaves has no
\* key or handler that is not a keyed control of this render's sequence.
C6_HistoryIndependent == [][FreshRender]_vars

\* the second getData has published the pristine defaults while the table
\* of the first render still holds the key of a control a listener appended
C6_Witness ==
  /\ pc = "hook"
  /\ renders = 1
  /\ mutations > 0
  /\ "a" \in DOMAIN controlFns
  /\ data = Pristine(appName)

\* ---------------------------------------------------- resolved records
RECURSIVE OutPathsOf(_)
OutPathsOf(out) ==
  UNION {{<<i>>} \cup {<<i>> \o q : q \in OutPathsOf(out[i].controls)} :
         i \in 1..Len(out)}

RECURSIVE OutItemsAt(_, _)
OutItemsAt(out, p) ==
  IF p = <<>> THEN out ELSE OutItemsAt(out[Head(p)].controls, Tail(p))

OutNodeAt(out, p) == OutItemsAt(out, Front(p))[p[Len(p)]]

\* the value of an attribute for a subject: the literal, the function
\* applied to the subject, or the default when the attribute is absent
Resolve(a, subject, default) ==
  CASE a.t = "lit" -> a.v
    [] a.t = "fn" -> Call(a.f, subject)
    [] OTHER -> default

\* C7: applyCardControls returns a tree of the same length, order and
\* nesting as the control list; each record has exactly the fields tooltip,
\* aria, icon, class, disabled and controls; tooltip, aria and icon are the
\* literal, the function applied to the subject, or "" when absent, disabled
\* likewise with default false, class the descriptor's class or "", controls
\* the applied children or the empty sequence; no record carries onclick.
C7_AppliedControls ==
  resolved.kind = "controls" =>
    LET L == data.controls
        S == cards[resolved.card]
        out == resolved.out
    IN /\ Len(out) = Len(L)
       /\ OutPathsOf(out) = PathsOf(L)
       /\ \A p \in PathsOf(L) :
            LET d == NodeAt(L, p)
                r == OutNodeAt(out, p)
            IN /\ DOMAIN r = {"tooltip", "aria", "icon", "class", "disabled",
                              "controls"}
               /\ r.tooltip = Resolve(d.tooltip, S, "")
               /\ r.aria = Resolve(d.aria, S, "")
               /\ r.icon = Resolve(d.icon, S, "")
               /\ r.disabled = Resolve(d.disabled, S, FALSE)
               /\ r.class = (IF d.class.t = "absent" THEN "" ELSE d.class.v)
               /\ Len(r.controls) = (IF IsGroup(d) THEN Len(d.controls.items) ELSE 0)

\* a resolved tree of depth 3 with a computed tooltip, a computed aria, a
\* literal and a computed disabled, and an absent class
C7_Witness ==
  /\ resolved.kind = "controls"
  /\ \E p \in OutPathsOf(resolved.out) : Len(p) = 3
  /\ \E p \in PathsOf(data.controls) :
       /\ NodeAt(data.controls, p).tooltip.t = "fn"
       /\ NodeAt(data.controls, p).disabled.t = "lit"
       /\ OutNodeAt(resolved.out, p).tooltip = cards[resolved.card].name
       /\ OutNodeAt(resolved.out, p).disabled
  /\ \E p \in PathsOf(data.controls) :
       /\ NodeAt(data.controls, p).aria.t = "fn"
       /\ OutNodeAt(resolved.out, p).aria # ""
  /\ \E p \in PathsOf(data.controls) :
       /\ NodeAt(data.controls, p).class.t = "absent"
       /\ HasOnclick(NodeAt(data.controls, p))
       /\ OutNodeAt(resolved.out, p).class = ""

\* a call of applyCardControls at render time
PureApply ==
  (pc = "ready" /\ pc' = "ready" /\ resolved'.kind = "controls") =>
    /\ cards' = cards
    /\ data' = data
    /\ controlFns' = controlFns
    /\ (/\ resolved.kind = "controls"
        /\ resolved.card = resolved'.card) => resolved'.out = resolved.out

C9_AppliedBadges ==
  resolved.kind = "badges" =>
    LET L == data.badges
        S == cards[resolved.card]
        out == resolved.out
    IN /\ Len(out) = Len(L)
       /\ \A i \in 1..Len(L) :
            /\ DOMAIN out[i] = {"tooltip", "text", "hide", "class"}
            /\ out[i].tooltip = Resolve(L[i].tooltip, S, "")
            /\ out[i].text = Resolve(L[i].text, S, "")
            /\ out[i].hide = Resolve(L[i].hide, S, FALSE)
            /\ out[i].class = (IF L[i].class.t = "absent" THEN "" ELSE L[i].class.v)
            /\ (/\ S.name = "Ace"
                /\ L[i].tooltip = Lit("T") /\ L[i].text = Fn("card.name")
                /\ L[i].class = Lit("x") /\ L[i].hide = AbsentB)
                 => out[i] = [tooltip |-> "T", text |-> "Ace", hide |-> FALSE,
                              class |-> "x"]

\* the badge {tooltip:"T", text: c => c.name, class:"x"}, appended by a
\* listener, was applied to the card named Ace after the default badges
C9_Witness ==
  /\ resolved.kind = "badges"
  /\ cards[resolved.card].name = "Ace"
  /\ Len(resolved.out) = 4
  /\ resolved.out[1].text = "spades"
  /\ data.badges[4].tooltip = Lit("T")
  /\ resolved.out[4] = [tooltip |-> "T", text |-> "Ace", hide |-> FALSE,
                        class |-> "x"]

\* C10: the default control list applied to a subject gives one group whose
\* two children are next-face, disabled exactly when the subject has no next
\* face, and prev-face, disabled exactly when it has no previous face.
C10_DefaultControlsApplied ==
  (resolved.kind = "controls" /\ data.controls = ControlsDefault) =>
    LET S == cards[resolved.card]
        out == resolved.out
    IN /\ Len(out) = 1
       /\ out[1].class = "card-faces"
       /\ Len(out[1].controls) = 2
       /\ out[1].controls[1].class = "next-face"
       /\ out[1].controls[1].disabled = ~S.hasNextFace
       /\ out[1].controls[2].class = "prev-face"
       /\ out[1].controls[2].disabled = ~S.hasPreviousFace

\* the render's own default list applied to a card with no next face and a
\* previous face: next-face is disabled, prev-face is not
C10_Witness ==
  /\ resolved.kind = "controls"
  /\ data.controls = ControlsDefault
  /\ ~cards[resolved.card].hasNextFace
  /\ cards[resolved.card].hasPreviousFace
  /\ resolved.out[1].controls[1].disabled = TRUE
  /\ resolved.out[1].controls[2].disabled = FALSE

\* no listener has changed a sequence: the hook has no listeners
NoListeners == mutations = 0

MarkerColors ==
  [red |-> "#ff0000", green |-> "#00ff00", blue |-> "#0000ff",
   yellow |-> "#ffff00", purple |-> "#800080", black |-> "#000000",
   white |-> "#ffffff"]

\* Markers._getColorMarker(color); show is the function
\* (card) => card.data?.flags?.monarch?.markers[color], named by its colour
getColorMarker(color) ==
  [tooltip |-> Lit("monarch.markers." \o color),
   class |-> Lit("marker-" \o color),
   icon |-> Lit("fas fa-circle"),
   color |-> Lit(MarkerColors[color]),
   show |-> FnB(color)]

\* Markers.default
MarkersDefault ==
  <<getColorMarker("red"), getColorMarker("green"), getColorMarker("blue"),
    getColorMarker("yellow"), getColorMarker("purple"),
    getColorMarker("black"), getColorMarker("white")>>

\* A subject as the show predicate reads it: each of data, data.flags,
\* data.flags.monarch and data.flags.monarch.markers is present or absent
\* (has), and markers binds a colour to "true", "false" or nothing
\* ("undefined").
NoMarkers == [c \in DOMAIN MarkerColors |-> "undefined"]
Subject(d, f, m, k, of) ==
  [data |-> [has |-> d,
             flags |-> [has |-> f,
                        monarch |-> [has |-> m,
                                     markers |-> [has |-> k, of |-> of]]]]]

MarkerSubjects ==
  {Subject(FALSE, FALSE, FALSE, FALSE, NoMarkers),
   Subject(TRUE, FALSE, FALSE, FALSE, NoMarkers),
   Subject(TRUE, TRUE, FALSE, FALSE, NoMarkers),
   Subject(TRUE, TRUE, TRUE, FALSE, NoMarkers)}
  \cup
  {Subject(TRUE, TRUE, TRUE, TRUE,
           [NoMarkers EXCEPT !["red"] = r, !["green"] = g]) :
     r, g \in {"undefined", "true", "false"}}

\* card.data?.flags?.monarch?.markers[color]: each ?. ends the chain with
\* undefined when what stands before it is undefined; markers is read from a
\* monarch that is there, and indexing it when it is undefined throws a
\* TypeError.
MarkerShow(color, card) ==
  IF ~card.data.has THEN [threw |-> FALSE, value |-> "undefined"]
  ELSE IF ~card.data.flags.has THEN [threw |-> FALSE, value |-> "undefined"]
  ELSE IF ~card.data.flags.monarch.has
       THEN [threw |-> FALSE, value |-> "undefined"]
  ELSE IF ~card.data.flags.monarch.markers.has
       THEN [threw |-> TRUE, value |-> "undefined"]
  ELSE [threw |-> FALSE, value |-> card.data.flags.monarch.markers.of[color]]

\* an application whose container holds one subject of the markers
InitMarkers ==
  /\ appName \in AppNames
  /\ cards \in {<<c>> : c \in MarkerSubjects}
  /\ pc = "idle"
  /\ data = [controls |-> <<>>, badges |-> <<>>, appControls |-> <<>>]
  /\ published = <<>>
  /\ controlFns = [k \in {} |-> ""]
  /\ renders = 0
  /\ mutations = 0
  /\ resolved = NoResult

\* the show predicate of a built-in colour marker is evaluated on the card
EvalMarkerShow ==
  /\ \E i \in DOMAIN MarkersDefault :
       resolved' = [kind |-> "show", card |-> 1,
                    out |-> [marker |-> i,
                             show |-> MarkerShow(MarkersDefault[i].show.f,
                                                 cards[1])]]
  /\ UNCHANGED <<appName, cards, pc, data, published, controlFns, renders,
                 mutations>>

NextMarkers == EvalMarkerShow

SpecMarkers == InitMarkers /\ [][NextMarkers]_vars

\* the name of the colour of the i-th built-in marker
ColorOf(i) == MarkersDefault[i].show.f

\* the subject carries a marker flag for the colour
HasMarkerFlag(card, color) ==
  /\ card.data.has /\ card.data.flags.has /\ card.data.flags.monarch.has
  /\ card.data.flags.monarch.markers.has
  /\ card.data.flags.monarch.markers.of[color] # "undefined"

\* C12 as stated: evaluating the show predicate of a built-in colour marker
\* never raises an error, and its value is falsy whenever the subject carries
\* no marker flag for the colour, whichever of data, data.flags,
\* data.flags.monarch and data.flags.monarch.markers is absent.
C12_ShowNeverThrows ==
  resolved.kind = "show" =>
    /\ ~resolved.out.show.threw
    /\ ~HasMarkerFlag(cards[1], ColorOf(resolved.out.marker)) =>
         resolved.out.show.value \in {"undefined", "false"}

====
